---- MODULE Spec2Model ----
(***************************************************************************)
(* miningsim: reconstruction of simulation data from an event log          *)
(* (scripts/parsing.py), derivation of the statistics                      *)
(* (scripts/statistics.py) and the top-level error handling of             *)
(* scripts/app.py.                                                         *)
(*                                                                         *)
(* A log line is represented by the fields the two regular expressions     *)
(* look at: the leading timestamp, the role word, the signed id, the       *)
(* message, and the kind of the ";key=" tail that follows the message.     *)
(* A Python dict is a sequence of [key, value] entries in insertion order  *)
(* (the order dict.keys() iterates in).  The result of "/" is an exact     *)
(* fraction in lowest terms.                                               *)
(***************************************************************************)
EXTENDS Integers, Sequences, FiniteSets, TLC

VARIABLES
  input,    \* which file is read: "generic" (any lines) or "scenario"
  pc,       \* position of main(): start, reading, parsed, done, failed
  lineno,   \* number of lines consumed from the file so far
  line,     \* the loop variable `line` of parse(): the line read last
  data,     \* the SimulationData instance (self.data)
  stats,    \* the SimulationStatistics snapshot, or NoStats
  err,      \* the exception that main() caught, or "none"
  seen      \* history of the input: what the lines read so far contained

vars == <<input, pc, lineno, line, data, stats, err, seen>>

\* ------------------------------------------------------------------ bounds
MaxLines == 5   \* lines of a generic file (header included)

\* --------------------------------------------------------------- constants
None == -1      \* Python's None in the two timestamp fields

NoStats == [made |-> FALSE]

MSG_FOREMAN     == "Finished analysing the input file."
MSG_RESOURCE    == "Finished mining a resource."
MSG_BLOCK       == "Finished mining a block of resources."
MSG_FILLED      == "Lorry has been filled."
MSG_AT_FERRY    == "Lorry has arrived at the ferry."
MSG_AT_DEST     == "Lorry has arrived at the destination."
MSG_FERRY_LEFT  == "Ferry has departed from the origin shore."
MSG_OTHER       == "Lorry has departed from the origin shore."

\* the timestamps, entity ids and durations of the lines of a generic file
Ts   == {0, 1}
Ids  == {0, 1}
Durs == {1, 2}

\* ------------------------------------------------------------------- lines
Line(timestamp, role, thread_id, message, tail, value) ==
  [timestamp |-> timestamp, role |-> role, thread_id |-> thread_id,
   message |-> message, tail |-> tail, value |-> value]

NoLine == Line(0, "", 0, "", "none", 0)

\* "<ts> <role> <id> <message>;duration=<int>": the six (role, message) pairs
\* handle_log recognises, with the id and the duration varied where a mutator
\* receives them (and the id of the "filled" event, which none receives) ...
RecognisedLines ==
  { Line(t, "Worker", i, MSG_RESOURCE, "duration", v) :
      t \in Ts, i \in Ids, v \in Durs }
  \cup { Line(t, "Worker", 0, MSG_BLOCK, "duration", 1) : t \in Ts }
  \cup { Line(t, "Lorry", i, MSG_FILLED, "duration", v) :
      t \in Ts, i \in Ids, v \in Durs }
  \cup { Line(t, "Lorry", i, m, "duration", v) :
      t \in Ts, i \in Ids, m \in {MSG_AT_FERRY, MSG_AT_DEST}, v \in Durs }
  \cup { Line(t, "Ferry", -1, MSG_FERRY_LEFT, "duration", v) :
      t \in Ts, v \in Durs }

\* ... and three pairs it does not: a recognised message under another role,
\* a role handle_log does not know, and a message no branch compares with
UnrecognisedLines ==
  { Line(t, e[1], 0, e[2], "duration", 1) :
      t \in Ts,
      e \in { <<"Worker", MSG_FILLED>>, <<"Foreman", MSG_RESOURCE>>,
              <<"Ferry", MSG_OTHER>> } }

GeneralLines == RecognisedLines \cup UnrecognisedLines

\* "<ts> Foreman -1 Finished analysing the input file.;blocks=<int>,resources=<int>"
ForemanLines ==
  { Line(t, "Foreman", -1, MSG_FOREMAN, "blocks", 1) : t \in Ts }

\* lines that carry no ";duration=" / ";blocks=" tail at all
MalformedLines ==
  { Line(0, "Worker", 0, MSG_RESOURCE, "none", 0),
    Line(0, "Foreman", -1, MSG_FOREMAN, "none", 0) }

Lines == GeneralLines \cup ForemanLines \cup MalformedLines

\* The seven-line scenario log.
ScenarioLog ==
  << Line(0,  "Foreman", -1, MSG_FOREMAN,    "blocks",   1),
     Line(5,  "Worker",   0, MSG_RESOURCE,   "duration", 5),
     Line(5,  "Worker",   0, MSG_BLOCK,      "duration", 0),
     Line(10, "Lorry",    0, MSG_FILLED,     "duration", 10),
     Line(20, "Lorry",    0, MSG_AT_FERRY,   "duration", 10),
     Line(25, "Ferry",   -1, MSG_FERRY_LEFT, "duration", 5),
     Line(30, "Lorry",    0, MSG_AT_DEST,    "duration", 5) >>

\* re.match(FOREMAN_LOG_PATTERN, log) is not None
FOREMAN_LOG_PATTERN(log) ==
  /\ log.timestamp >= 0
  /\ log.role = "Foreman"
  /\ log.thread_id = -1
  /\ log.message = MSG_FOREMAN
  /\ log.tail = "blocks"

\* re.match(GENERAL_LOG_PATTERN, log) is not None: any alphabetic role word,
\* any signed id, any message that ends in a period, then ";duration=<int>"
GENERAL_LOG_PATTERN(log) ==
  /\ log.timestamp >= 0
  /\ log.role # ""
  /\ log.message # ""
  /\ log.tail = "duration"

\* ------------------------------------------------------------------- dicts
RECURSIVE IndexOf(_, _, _)
IndexOf(d, k, i) ==
  IF i > Len(d) THEN 0
  ELSE IF d[i].key = k THEN i
  ELSE IndexOf(d, k, i + 1)

HasKey(d, k) == IndexOf(d, k, 1) # 0
Get(d, k)    == d[IndexOf(d, k, 1)].value
Keys(d)      == [i \in 1..Len(d) |-> d[i].key]
Values(d)    == [i \in 1..Len(d) |-> d[i].value]
KeySet(d)    == {d[i].key : i \in 1..Len(d)}

\* d.setdefault(k, v)
setdefault(d, k, v) ==
  IF HasKey(d, k) THEN d ELSE Append(d, [key |-> k, value |-> v])

\* d[k] += x   (k is a key of d)
AddTo(d, k, x) ==
  [i \in 1..Len(d) |-> IF d[i].key = k
                       THEN [key |-> k, value |-> d[i].value + x]
                       ELSE d[i]]

RECURSIVE sum(_)
sum(s) == IF s = <<>> THEN 0 ELSE Head(s) + sum(Tail(s))

\* ---------------------------------------------------------- SimulationData
SimulationData ==
  [timestamp_begin            |-> None,
   timestamp_last_event       |-> None,
   blocks_mined_cnt           |-> 0,
   workers_resources_mined    |-> <<>>,
   workers_work_duration      |-> <<>>,
   ferry_wait_durations       |-> <<>>,
   lorries_load_duration      |-> <<>>,
   lorries_transport_duration |-> <<>>]

set_timestamp_begin(d, timestamp) ==
  [d EXCEPT !.timestamp_begin = timestamp]

\* variant: the last-event timestamp only ever grows
update_timestamp_last_event_max(d, timestamp) ==
  [d EXCEPT !.timestamp_last_event = IF timestamp > @ THEN timestamp ELSE @]

update_timestamp_last_event(d, timestamp) ==
  [d EXCEPT !.timestamp_last_event = timestamp]

\* variant: the counter is set, not incremented
inc_blocks_mined_cnt_set(d) ==
  [d EXCEPT !.blocks_mined_cnt = 1]

inc_blocks_mined_cnt(d) ==
  [d EXCEPT !.blocks_mined_cnt = @ + 1]

inc_resources_mined_cnt(d, worker_id) ==
  [d EXCEPT !.workers_resources_mined =
              AddTo(setdefault(@, worker_id, 0), worker_id, 1)]

\* variant: "=" in place of "+="
increase_worker_work_duration_assign(d, worker_id, duration) ==
  [d EXCEPT !.workers_work_duration =
              AddTo(setdefault(@, worker_id, 0), worker_id,
                    duration - Get(setdefault(@, worker_id, 0), worker_id))]

increase_worker_work_duration(d, worker_id, duration) ==
  [d EXCEPT !.workers_work_duration =
              AddTo(setdefault(@, worker_id, 0), worker_id, duration)]

register_ferry_wait_duration(d, duration) ==
  [d EXCEPT !.ferry_wait_durations = Append(@, duration)]

\* variant: insert(0, duration) in place of append(duration)
register_lorry_load_duration_front(d, duration) ==
  [d EXCEPT !.lorries_load_duration = <<duration>> \o @]

register_lorry_load_duration(d, duration) ==
  [d EXCEPT !.lorries_load_duration = Append(@, duration)]

\* variant: the transport entries are keyed from one, not from zero
increase_lorry_transport_duration_one_based(d, lorry_id, duration) ==
  [d EXCEPT !.lorries_transport_duration =
              AddTo(setdefault(@, lorry_id + 1, 0), lorry_id + 1, duration)]

increase_lorry_transport_duration(d, lorry_id, duration) ==
  [d EXCEPT !.lorries_transport_duration =
              AddTo(setdefault(@, lorry_id, 0), lorry_id, duration)]

\* ------------------------------------------------------ SimulationLogParser
\* variant: the second comparison of the Lorry branch tests one message only
dispatch_ferry_leg_only(d, role, thread_id, message, duration) ==
  IF role = "Worker" THEN
    IF message = MSG_RESOURCE THEN
      increase_worker_work_duration(
        inc_resources_mined_cnt(d, thread_id), thread_id, duration)
    ELSE IF message = MSG_BLOCK THEN inc_blocks_mined_cnt(d)
    ELSE d
  ELSE IF role = "Lorry" THEN
    IF message = MSG_FILLED THEN register_lorry_load_duration(d, duration)
    ELSE IF message = MSG_AT_FERRY THEN
      increase_lorry_transport_duration(d, thread_id, duration)
    ELSE d
  ELSE IF role = "Ferry" THEN
    IF message = MSG_FERRY_LEFT THEN register_ferry_wait_duration(d, duration)
    ELSE d
  ELSE d

\* variant: the "filled" message is compared before the role is
dispatch_filled_any_role(d, role, thread_id, message, duration) ==
  IF message = MSG_FILLED THEN register_lorry_load_duration(d, duration)
  ELSE IF role = "Worker" THEN
    IF message = MSG_RESOURCE THEN
      increase_worker_work_duration(
        inc_resources_mined_cnt(d, thread_id), thread_id, duration)
    ELSE IF message = MSG_BLOCK THEN inc_blocks_mined_cnt(d)
    ELSE d
  ELSE IF role = "Lorry" THEN
    IF message = MSG_AT_FERRY \/ message = MSG_AT_DEST THEN
      increase_lorry_transport_duration(d, thread_id, duration)
    ELSE d
  ELSE IF role = "Ferry" THEN
    IF message = MSG_FERRY_LEFT THEN register_ferry_wait_duration(d, duration)
    ELSE d
  ELSE d

\* variant: the work duration is accumulated for every Worker event, the
\* resource count for the resource events only
dispatch_duration_of_every_worker_event(d, role, thread_id, message, duration) ==
  IF role = "Worker" THEN
    IF message = MSG_RESOURCE THEN
      increase_worker_work_duration(
        inc_resources_mined_cnt(d, thread_id), thread_id, duration)
    ELSE IF message = MSG_BLOCK THEN
      increase_worker_work_duration(
        inc_blocks_mined_cnt(d), thread_id, duration)
    ELSE increase_worker_work_duration(d, thread_id, duration)
  ELSE IF role = "Lorry" THEN
    IF message = MSG_FILLED THEN register_lorry_load_duration(d, duration)
    ELSE IF message = MSG_AT_FERRY \/ message = MSG_AT_DEST THEN
      increase_lorry_transport_duration(d, thread_id, duration)
    ELSE d
  ELSE IF role = "Ferry" THEN
    IF message = MSG_FERRY_LEFT THEN register_ferry_wait_duration(d, duration)
    ELSE d
  ELSE d

\* The dispatch of handle_log, before the unconditional last statement.
dispatch(d, role, thread_id, message, duration) ==
  IF role = "Worker" THEN
    IF message = MSG_RESOURCE THEN
      increase_worker_work_duration(
        inc_resources_mined_cnt(d, thread_id), thread_id, duration)
    ELSE IF message = MSG_BLOCK THEN inc_blocks_mined_cnt(d)
    ELSE d
  ELSE IF role = "Lorry" THEN
    IF message = MSG_FILLED THEN register_lorry_load_duration(d, duration)
    ELSE IF message = MSG_AT_FERRY \/ message = MSG_AT_DEST THEN
      increase_lorry_transport_duration(d, thread_id, duration)
    ELSE d
  ELSE IF role = "Ferry" THEN
    IF message = MSG_FERRY_LEFT THEN register_ferry_wait_duration(d, duration)
    ELSE d
  ELSE d

handle_log(d, timestamp, role, thread_id, message, duration) ==
  update_timestamp_last_event(
    dispatch(d, role, thread_id, message, duration), timestamp)

\* parse_foreman_log / parse_general_log on a line that matches
parse_foreman_log(d, log) == set_timestamp_begin(d, log.timestamp)

parse_general_log(d, log) ==
  handle_log(d, log.timestamp, log.role, log.thread_id, log.message, log.value)

\* -------------------------------------------------------------- statistics
RECURSIVE GCD(_, _)
GCD(a, b) == IF b = 0 THEN a ELSE GCD(b, a % b)

\* a / b (b > 0, a >= 0) as a fraction in lowest terms
TrueDiv(a, b) ==
  LET g == GCD(a, b) IN [num |-> a \div g, den |-> b \div g]

\* n + q for an integer n and a fraction q
AddInt(n, q) == TrueDiv(n * q.den + q.num, q.den)

\* list.insert of x into the already sorted s, after every element whose
\* key is not greater (sorted() is stable)
RECURSIVE InsertByKey(_, _, _)
InsertByKey(s, x, key) ==
  IF s = <<>> THEN <<x>>
  ELSE IF x[key] < Head(s)[key] THEN <<x>> \o s
  ELSE <<Head(s)>> \o InsertByKey(Tail(s), x, key)

RECURSIVE sorted(_, _)
sorted(s, key) ==
  IF s = <<>> THEN <<>>
  ELSE InsertByKey(sorted(SubSeq(s, 1, Len(s) - 1), key), s[Len(s)], key)

WorkerStatistics(worker_id, resources_mined_cnt, work_duration) ==
  [WORKER_ID |-> worker_id, RESOURCES_MINED_CNT |-> resources_mined_cnt,
   WORK_DURATION |-> work_duration]

LorryStatistics(lorry_id, load_time, transport_time) ==
  [LORRY_ID |-> lorry_id, LOAD_TIME |-> load_time,
   TRANSPORT_TIME |-> transport_time]

\* data.workers_work_duration[worker_id] raises KeyError for some worker_id
workers_key_error(d) ==
  \E k \in KeySet(d.workers_resources_mined) :
    ~HasKey(d.workers_work_duration, k)

\* data.lorries_transport_duration[lorry_id] raises KeyError for some index
\* of enumerate(data.lorries_load_duration)
lorries_key_error(d) ==
  \E i \in 1..Len(d.lorries_load_duration) :
    ~HasKey(d.lorries_transport_duration, i - 1)

\* variant: the list is returned in the order of dict.keys(), not sorted
make_workers_statistics_unsorted(d) ==
  [i \in 1..Len(d.workers_resources_mined) |->
     LET worker_id == d.workers_resources_mined[i].key IN
     WorkerStatistics(worker_id,
                      Get(d.workers_resources_mined, worker_id),
                      Get(d.workers_work_duration, worker_id))]

make_workers_statistics(d) ==
  sorted([i \in 1..Len(d.workers_resources_mined) |->
            LET worker_id == d.workers_resources_mined[i].key IN
            WorkerStatistics(worker_id,
                             Get(d.workers_resources_mined, worker_id),
                             Get(d.workers_work_duration, worker_id))],
         "WORKER_ID")

\* variant: the average ferry wait is not added
make_lorries_statistics_no_wait(d, avg_ferry_wait_duration) ==
  sorted([i \in 1..Len(d.lorries_load_duration) |->
            LET lorry_id == i - 1 IN
            LorryStatistics(lorry_id,
                            d.lorries_load_duration[i],
                            TrueDiv(Get(d.lorries_transport_duration, lorry_id), 1))],
         "LORRY_ID")

make_lorries_statistics(d, avg_ferry_wait_duration) ==
  sorted([i \in 1..Len(d.lorries_load_duration) |->
            LET lorry_id == i - 1 IN
            LorryStatistics(lorry_id,
                            d.lorries_load_duration[i],
                            AddInt(Get(d.lorries_transport_duration, lorry_id),
                                   avg_ferry_wait_duration))],
         "LORRY_ID")

\* The exception make_simulation_statistics raises on d, in statement order,
\* or "none".
statistics_error(d) ==
  IF d.timestamp_last_event = None \/ d.timestamp_begin = None
    THEN "TypeError"
  ELSE IF d.blocks_mined_cnt = 0 THEN "ZeroDivisionError"
  ELSE IF sum(Values(d.workers_resources_mined)) = 0 THEN "ZeroDivisionError"
  ELSE IF Len(d.ferry_wait_durations) = 0 THEN "ZeroDivisionError"
  ELSE IF workers_key_error(d) THEN "KeyError"
  ELSE IF lorries_key_error(d) THEN "KeyError"
  ELSE "none"

make_simulation_statistics(d) ==
  LET duration == d.timestamp_last_event - d.timestamp_begin
      sum_workers_work_duration == sum(Values(d.workers_work_duration))
      avg_block_mine_duration ==
        TrueDiv(sum_workers_work_duration, d.blocks_mined_cnt)
      resources_mined_cnt == sum(Values(d.workers_resources_mined))
      avg_resource_mine_duration ==
        TrueDiv(sum_workers_work_duration, resources_mined_cnt)
      ferry_trips_cnt == Len(d.ferry_wait_durations)
      avg_ferry_wait_duration ==
        TrueDiv(sum(d.ferry_wait_durations), ferry_trips_cnt)
  IN [made |-> TRUE,
      DURATION |-> duration,
      BLOCKS_MINED_CNT |-> d.blocks_mined_cnt,
      AVG_BLOCK_MINE_DURATION |-> avg_block_mine_duration,
      RESOURCES_MINED_CNT |-> resources_mined_cnt,
      AVG_RESOURCE_MINE_DURATION |-> avg_resource_mine_duration,
      FERRY_TRIPS_CNT |-> ferry_trips_cnt,
      AVG_FERRY_WAIT_DURATION |-> avg_ferry_wait_duration,
      WORKERS_STATISTICS |-> make_workers_statistics(d),
      LORRIES_STATISTICS |-> make_lorries_statistics(d, avg_ferry_wait_duration)]

\* ------------------------------------------------------------------ actions
IsFilled(l)  == l.role = "Lorry" /\ l.message = MSG_FILLED
IsArrival(l) == l.role = "Lorry" /\ l.message \in {MSG_AT_FERRY, MSG_AT_DEST}

\* history of the input file: its first line, the number of "filled" lines
\* and the lorry ids of the "arrived" lines among the general lines read
NothingSeen == [header |-> NoLine, filled |-> 0, arrived |-> {}]

SeeHeader(l) == [seen EXCEPT !.header = l]

SeeGeneral(l) ==
  [seen EXCEPT !.filled  = IF IsFilled(l) THEN @ + 1 ELSE @,
               !.arrived = IF IsArrival(l) THEN @ \cup {l.thread_id} ELSE @]

Init ==
  /\ input \in {"generic", "scenario"}
  /\ pc = "start"
  /\ lineno = 0
  /\ line = NoLine
  /\ data = SimulationData
  /\ stats = NoStats
  /\ err = "none"
  /\ seen = NothingSeen

\* the lines the iterator over the file can yield next
NextLines ==
  IF input = "scenario"
    THEN IF lineno < Len(ScenarioLog) THEN {ScenarioLog[lineno + 1]} ELSE {}
    ELSE IF lineno < MaxLines THEN Lines ELSE {}

\* the iterator over the file can be exhausted here
AtEndOfFile == input = "scenario" => lineno = Len(ScenarioLog)

Raise(e) ==
  /\ pc' = "failed"
  /\ err' = e
  /\ UNCHANGED <<input, data, stats, seen>>

\* parse(): next(lines) on an empty file
EmptyFile ==
  /\ pc = "start"
  /\ AtEndOfFile
  /\ Raise("StopIteration")
  /\ UNCHANGED <<lineno, line>>

\* parse(): the first line matches FOREMAN_LOG_PATTERN
ParseForemanLog ==
  /\ pc = "start"
  /\ \E l \in NextLines :
       /\ FOREMAN_LOG_PATTERN(l)
       /\ line' = l
       /\ data' = parse_foreman_log(data, l)
       /\ seen' = SeeHeader(l)
  /\ lineno' = lineno + 1
  /\ pc' = "reading"
  /\ UNCHANGED <<input, stats, err>>

\* parse(): the first line does not match
ForemanLogInvalid ==
  /\ pc = "start"
  /\ \E l \in NextLines :
       /\ ~FOREMAN_LOG_PATTERN(l)
       /\ line' = l
  /\ lineno' = lineno + 1
  /\ Raise("SimulationLogParsingException")

\* parse(): one iteration of the for loop on a line that matches
ParseGeneralLog ==
  /\ pc = "reading"
  /\ \E l \in NextLines :
       /\ GENERAL_LOG_PATTERN(l)
       /\ line' = l
       /\ data' = parse_general_log(data, l)
       /\ seen' = SeeGeneral(l)
  /\ lineno' = lineno + 1
  /\ UNCHANGED <<input, pc, stats, err>>

\* variant: the last-event timestamp is recorded before the match is tested
GeneralLogInvalid_timestamp_first ==
  /\ pc = "reading"
  /\ \E l \in NextLines :
       /\ ~GENERAL_LOG_PATTERN(l)
       /\ line' = l
       /\ data' = update_timestamp_last_event(data, l.timestamp)
  /\ lineno' = lineno + 1
  /\ pc' = "failed"
  /\ err' = "SimulationLogParsingException"
  /\ UNCHANGED <<input, stats, seen>>

\* parse(): one iteration of the for loop on a line that does not match
GeneralLogInvalid ==
  /\ pc = "reading"
  /\ \E l \in NextLines :
       /\ ~GENERAL_LOG_PATTERN(l)
       /\ line' = l
  /\ lineno' = lineno + 1
  /\ Raise("SimulationLogParsingException")

\* parse(): the for loop ends and the data are returned to main()
EndOfFile ==
  /\ pc = "reading"
  /\ AtEndOfFile
  /\ pc' = "parsed"
  /\ UNCHANGED <<input, lineno, line, data, stats, err, seen>>

\* main(): statistics.make_simulation_statistics(data) returns
MakeStatistics ==
  /\ pc = "parsed"
  /\ statistics_error(data) = "none"
  /\ stats' = make_simulation_statistics(data)
  /\ pc' = "done"
  /\ UNCHANGED <<input, lineno, line, data, err, seen>>

\* main(): statistics.make_simulation_statistics(data) raises
StatisticsFail ==
  /\ pc = "parsed"
  /\ statistics_error(data) # "none"
  /\ Raise(statistics_error(data))
  /\ UNCHANGED <<lineno, line>>

Next ==
  \/ EmptyFile
  \/ ParseForemanLog
  \/ ForemanLogInvalid
  \/ ParseGeneralLog
  \/ GeneralLogInvalid
  \/ EndOfFile
  \/ MakeStatistics
  \/ StatisticsFail

Spec == Init /\ [][Next]_vars

\* ------------------------------------------------------------- vocabulary
\* main() is past parse(): the data are those parse() returned
AfterParse ==
  \/ pc = "parsed"
  \/ pc = "done"
  \/ pc = "failed" /\ err \in {"TypeError", "ZeroDivisionError", "KeyError"}

\* this step read a general-form line with the given role and message and
\* handed it to handle_log (the event is line')
Processed(role, message) ==
  /\ pc = "reading"
  /\ lineno' = lineno + 1
  /\ line'.tail = "duration"
  /\ line'.role = role
  /\ line'.message = message

\* the value of d[k], or 0 when k is not a key
Lookup(d, k) == IF HasKey(d, k) THEN Get(d, k) ELSE 0

AllIds == Ids \cup {-1}

\* ---------------------------------------------------------------------- C1
\* C1: for a log of a valid header and one or more valid general lines,
\* timestamp_begin is the header line's timestamp (while the general lines are
\* read and after parse() returns) and timestamp_last_event is the timestamp
\* of the general line read last, whatever the order of the timestamps.
C1_Timestamps ==
  (pc = "reading" \/ AfterParse) =>
    /\ data.timestamp_begin = seen.header.timestamp
    /\ lineno >= 2 => data.timestamp_last_event = line.timestamp

\* a log whose last event is older than an earlier one and than the header
C1_Witness ==
  /\ pc = "parsed"
  /\ lineno >= 3
  /\ seen.header.timestamp = 1
  /\ line.timestamp = 0
  /\ line.role = "Ferry"
  /\ line.message = MSG_OTHER

\* ---------------------------------------------------------------------- C2
\* C2: blocks_mined_cnt starts at zero, grows by one in exactly the steps that
\* process a Worker event "Finished mining a block of resources.", and is
\* changed by no other step: it counts those events.
C2_BlocksMinedCount ==
  /\ data.blocks_mined_cnt = 0
  /\ [][data'.blocks_mined_cnt =
          data.blocks_mined_cnt
            + (IF Processed("Worker", MSG_BLOCK) THEN 1 ELSE 0)]_vars

\* two block events counted, then an event of another kind
C2_Witness ==
  /\ pc = "reading"
  /\ data.blocks_mined_cnt = 2
  /\ line.message # MSG_BLOCK
  /\ lineno = 4

\* ---------------------------------------------------------------------- C3
\* the statistics hold one record per key of workers_resources_mined, with
\* that worker's two accumulated values
WorkersReported ==
  /\ Len(stats.WORKERS_STATISTICS) = Len(data.workers_resources_mined)
  /\ \A w \in KeySet(data.workers_resources_mined) :
       \E k \in 1..Len(stats.WORKERS_STATISTICS) :
         /\ stats.WORKERS_STATISTICS[k].WORKER_ID = w
         /\ stats.WORKERS_STATISTICS[k].RESOURCES_MINED_CNT
              = Lookup(data.workers_resources_mined, w)
         /\ stats.WORKERS_STATISTICS[k].WORK_DURATION
              = Lookup(data.workers_work_duration, w)

\* C3: for every worker id w, workers_resources_mined[w] counts the processed
\* Worker events "Finished mining a resource." of w and workers_work_duration[w]
\* sums their durations (both start absent, a missing key counts from zero, no
\* other step changes either), and the worker record of w in the statistics
\* reports these two values.
C3_WorkerAccumulators ==
  /\ data.workers_resources_mined = <<>>
  /\ data.workers_work_duration = <<>>
  /\ [][/\ \A w \in AllIds :
             LET mined == Processed("Worker", MSG_RESOURCE)
                            /\ line'.thread_id = w
             IN /\ Lookup(data'.workers_resources_mined, w)
                     = Lookup(data.workers_resources_mined, w)
                         + (IF mined THEN 1 ELSE 0)
                /\ Lookup(data'.workers_work_duration, w)
                     = Lookup(data.workers_work_duration, w)
                         + (IF mined THEN line'.value ELSE 0)
                /\ HasKey(data'.workers_resources_mined, w)
                     <=> (HasKey(data.workers_resources_mined, w) \/ mined)
        /\ (pc = "parsed" /\ pc' = "done") => WorkersReported'
       ]_vars

\* a worker with two resource events of different durations, reported
C3_Witness ==
  /\ pc = "done"
  /\ \E k \in 1..Len(stats.WORKERS_STATISTICS) :
       /\ stats.WORKERS_STATISTICS[k].RESOURCES_MINED_CNT = 2
       /\ stats.WORKERS_STATISTICS[k].WORK_DURATION = 3

\* ---------------------------------------------------------------------- C4
\* every lorry record's transport time is the sum of that lorry's transport
\* entry and the average of the ferry waits
TransportTimesReported ==
  \A k \in 1..Len(stats.LORRIES_STATISTICS) :
    stats.LORRIES_STATISTICS[k].TRANSPORT_TIME
      = AddInt(Lookup(data.lorries_transport_duration,
                      stats.LORRIES_STATISTICS[k].LORRY_ID),
               TrueDiv(sum(data.ferry_wait_durations),
                       Len(data.ferry_wait_durations)))

C5_LorryLoadDurations ==
  /\ data.lorries_load_duration = <<>>
  /\ [][data'.lorries_load_duration =
          IF Processed("Lorry", MSG_FILLED)
          THEN Append(data.lorries_load_duration, line'.value)
          ELSE data.lorries_load_duration]_vars

\* two "filled" events of different durations, then an event of another kind
C5_Witness ==
  /\ pc = "reading"
  /\ data.lorries_load_duration = <<2, 1>>
  /\ seen.filled = 2
  /\ line.message # MSG_FILLED
  /\ lineno = 4

\* ---------------------------------------------------------------------- C6
StrictlyAscending(s, key) ==
  \A i \in 1..Len(s) : \A j \in 1..Len(s) : i < j => s[i][key] < s[j][key]

ExpectedPattern(l) ==
  IF pc = "start" THEN FOREMAN_LOG_PATTERN(l) ELSE GENERAL_LOG_PATTERN(l)

\* C7: a step that reads a line failing its pattern (the header pattern for
\* the first line, the general pattern for the others) ends in the failed
\* state with the log-format exception, changes no field of the data (the
\* last-event timestamp included) and leaves the snapshot absent; nothing
\* happens after a failure, so no later line is read, the data committed by
\* the earlier lines stay and no snapshot is ever produced.
C7_AbortOnMalformedLine ==
  [][/\ (lineno' = lineno + 1 /\ ~ExpectedPattern(line')) =>
          /\ pc' = "failed"
          /\ err' = "SimulationLogParsingException"
          /\ data' = data
          /\ stats' = NoStats
     /\ pc = "failed" => UNCHANGED vars
    ]_vars

\* a general line fails after a block event was counted; the last-event
\* timestamp is still the earlier line's
C7_Witness ==
  /\ pc = "failed"
  /\ err = "SimulationLogParsingException"
  /\ lineno >= 3
  /\ data.blocks_mined_cnt = 1
  /\ data.timestamp_last_event = 1
  /\ line.timestamp = 0
  /\ stats = NoStats

\* ---------------------------------------------------------------------- C8
\* one of the three divisors of make_simulation_statistics is zero
ZeroDivisor(d) ==
  \/ d.blocks_mined_cnt = 0
  \/ sum(Values(d.workers_resources_mined)) = 0
  \/ Len(d.ferry_wait_durations) = 0

\* C8: once make_simulation_statistics has run on data with no block, no
\* resource or no ferry departure, it has failed with a division by zero
\* and produced no snapshot.
C8_DivisionByZero ==
  (AfterParse /\ pc # "parsed" /\ ZeroDivisor(data)) =>
    /\ pc = "failed"
    /\ err = "ZeroDivisionError"
    /\ stats = NoStats

\* The same, for the logs that hold a general line.
C8_DivisionByZeroAfterAnEvent ==
  (AfterParse /\ pc # "parsed" /\ ZeroDivisor(data) /\ lineno >= 2) =>
    /\ pc = "failed"
    /\ err = "ZeroDivisionError"
    /\ stats = NoStats

\* ---------------------------------------------------------------------- C9
ScenarioStatistics ==
  [made |-> TRUE,
   DURATION |-> 30,
   BLOCKS_MINED_CNT |-> 1,
   AVG_BLOCK_MINE_DURATION |-> [num |-> 5, den |-> 1],
   RESOURCES_MINED_CNT |-> 1,
   AVG_RESOURCE_MINE_DURATION |-> [num |-> 5, den |-> 1],
   FERRY_TRIPS_CNT |-> 1,
   AVG_FERRY_WAIT_DURATION |-> [num |-> 5, den |-> 1],
   WORKERS_STATISTICS |-> << WorkerStatistics(0, 1, 5) >>,
   LORRIES_STATISTICS |-> << LorryStatistics(0, 10, [num |-> 20, den |-> 1]) >>]

\* C9: reconstruction and derivation on the seven-line scenario log never
\* fail, and the snapshot is: duration 30, 1 block (average 5), 1 resource
\* (average 5), 1 ferry trip (average wait 5), the single worker record
\* (0, 1, 5) and the single lorry record (0, 10, 20).
C9_Scenario ==
  input = "scenario" =>
    /\ pc # "failed"
    /\ pc = "done" => stats = ScenarioStatistics

C9_Witness ==
  /\ input = "scenario"
  /\ pc = "done"
  /\ lineno = Len(ScenarioLog)

\* --------------------------------------------------------------------- C10
\* the load entries and the transport entries correspond by index
LoadTransportCorrespondence ==
  /\ Len(data.lorries_load_duration)
       = Cardinality(KeySet(data.lorries_transport_duration))
  /\ \A i \in 0..(Len(data.lorries_load_duration) - 1) :
       HasKey(data.lorries_transport_duration, i)

RecognisedEvent(l) ==
  \/ l.role = "Worker" /\ l.message \in {MSG_RESOURCE, MSG_BLOCK}
  \/ l.role = "Lorry"  /\ l.message \in {MSG_FILLED, MSG_AT_FERRY, MSG_AT_DEST}
  \/ l.role = "Ferry"  /\ l.message = MSG_FERRY_LEFT

\* this step read a general-form line and handed it to handle_log
ProcessedGeneral ==
  /\ pc = "reading"
  /\ lineno' = lineno + 1
  /\ line'.tail = "duration"

\* C11: every step that processes a general event sets timestamp_last_event
\* to the event's timestamp; when the event's (role, message) is not one of
\* the six recognised combinations (a recognised message under another role,
\* an unknown role, an unknown message) every other field of the data is left
\* as it was.
C11_UnrecognisedEventFrame ==
  [][ProcessedGeneral =>
       /\ data'.timestamp_last_event = line'.timestamp
       /\ ~RecognisedEvent(line') =>
            data' = [data EXCEPT !.timestamp_last_event = line'.timestamp]
    ]_vars

\* a recognised message under the wrong role, read after a block was counted,
\* with a timestamp lower than the header's
C11_Witness ==
  /\ pc = "reading"
  /\ lineno >= 3
  /\ line.role = "Worker"
  /\ line.message = MSG_FILLED
  /\ line.timestamp = 0
  /\ seen.header.timestamp = 1
  /\ data.timestamp_last_event = 0
  /\ data.blocks_mined_cnt = 1
  /\ data.lorries_load_duration = <<>>

\* --------------------------------------------------------------------- C12
\* C12: in every reachable state the worker ids that are keys of
\* workers_work_duration are the worker ids that are keys of
\* workers_resources_mined, so make_workers_statistics finds a work duration
\* for every worker id it iterates over.
C12_WorkerKeySets ==
  /\ KeySet(data.workers_work_duration) = KeySet(data.workers_resources_mined)
  /\ ~workers_key_error(data)
  /\ err = "KeyError" => lorries_key_error(data)

\* two workers, entered in descending order of id, after a block event of
\* worker 0 was processed before any of its resource events
C12_Witness ==
  /\ pc = "reading"
  /\ Keys(data.workers_resources_mined) = <<1, 0>>
  /\ Keys(data.workers_work_duration) = <<1, 0>>
  /\ data.blocks_mined_cnt = 1
  /\ line.message = MSG_RESOURCE
  /\ line.thread_id = 0

====
